---- MODULE Spec2Model ----
(***************************************************************************)
(* A model of wiki.js, the page script of the miniwiki static wiki: the    *)
(* page-chrome bootstrap (Wiki.init and its steps), the table-of-contents  *)
(* builder and the client-side search.                                     *)
(*                                                                         *)
(* Strings are sequences of one-character strings, so that toLowerCase,    *)
(* trim, includes, join and slugify are computed character by character.   *)
(* An optional JavaScript value (a property or global that may be          *)
(* undefined) is a sequence of length 0 (undefined) or 1 (the value).      *)
(* A DOM element list is the sequence, in document order, of the elements  *)
(* a selector returns; $(sel) is its first element.                        *)
(***************************************************************************)
EXTENDS Integers, Sequences, FiniteSets, TLC

VARIABLES
    WIKI_SEARCH_PAGES,  \* window.WIKI_SEARCH_PAGES: optional catalog
    WIKI_SIDEBAR,       \* window.WIKI_SIDEBAR: optional sequence of sections
    WIKI_PAGE,          \* window.WIKI_PAGE: optional page data (its title)
    navJson,            \* data/nav.json, the shared navigation file: optional
    searchIndex,        \* WIKI_CONFIG.searchIndex: optional (null at load)
    sidebarLinks,       \* WIKI_CONFIG.sidebarLinks
    doc,                \* the document: chrome, headings, widgets
    overlayValue,       \* value of the input #search-overlay-input
    matches,            \* _runSearch's matches: references into searchIndex
    resultsHTML,        \* innerHTML of #search-results
    location,           \* window.location: pathname (split at '/'), hostname
    initCount,          \* completed invocations of Wiki.init
    layoutCalls,        \* invocations of buildLayout
    tocCalls,           \* invocations of buildTOC
    nItems,             \* _buildNestedTOC: its argument
    nPos,               \* _buildNestedTOC: index of the next item of forEach
    nHtml,              \* _buildNestedTOC: the local html, as a token sequence
    nPrevLevel,         \* _buildNestedTOC: the local prevLevel
    nPc,                \* _buildNestedTOC: "idle" | "loop" | "done"
    pagesJson,          \* data/pages.json, the shared page catalog: optional
    Desmos,             \* typeof Desmos !== 'undefined'
    phase,              \* "loading" | "interactive" | "complete"
    loadListener,       \* the window 'load' listener of the auto-init is set
    raised,             \* an exception has escaped an event handler
    event               \* the last user-interface event dispatched

vars == <<WIKI_SEARCH_PAGES, WIKI_SIDEBAR, WIKI_PAGE, navJson, searchIndex,
          sidebarLinks, doc, overlayValue, matches, resultsHTML, location,
          initCount, layoutCalls, tocCalls, nItems, nPos, nHtml, nPrevLevel, nPc,
          pagesJson, Desmos, phase, loadListener, raised, event>>

(***************************************************************************)
(* Bounds of the model.                                                    *)
(***************************************************************************)
MaxQueryLen == 2
MaxRepeat == 11
MaxTail == 2
MaxHeadings == 4
MaxItems == 4
MaxInits == 2

(***************************************************************************)
(* Optional values and small helpers.                                      *)
(***************************************************************************)
Undefined == <<>>
Some(x) == <<x>>
IsDefined(o) == Len(o) > 0
Min(a, b) == IF a < b THEN a ELSE b
Max(a, b) == IF a > b THEN a ELSE b
Range(s) == {s[i] : i \in 1..Len(s)}
SeqsUpTo(S, n) == UNION {[1..k -> S] : k \in 0..n}

RECURSIVE Repeat(_, _)
Repeat(s, n) == IF n <= 0 THEN <<>> ELSE s \o Repeat(s, n - 1)

(***************************************************************************)
(* String primitives (String.prototype methods used by wiki.js).           *)
(***************************************************************************)
Whitespace == {" "}
UpperToLower == [c \in {"A", "B"} |-> IF c = "A" THEN "a" ELSE "b"]

LowerChar(c) == IF c \in DOMAIN UpperToLower THEN UpperToLower[c] ELSE c

toLowerCase(s) == [i \in 1..Len(s) |-> LowerChar(s[i])]

RECURSIVE trimStart(_)
trimStart(s) ==
    IF s # <<>> /\ Head(s) \in Whitespace THEN trimStart(Tail(s)) ELSE s

RECURSIVE trimEnd(_)
trimEnd(s) ==
    IF s # <<>> /\ s[Len(s)] \in Whitespace
    THEN trimEnd(SubSeq(s, 1, Len(s) - 1))
    ELSE s

trim(s) == trimEnd(trimStart(s))

includes(s, q) ==
    \E i \in 0..(Len(s) - Len(q)) : SubSeq(s, i + 1, i + Len(q)) = q

RECURSIVE join(_, _)
join(arr, sep) ==
    IF arr = <<>> THEN <<>>
    ELSE IF Len(arr) = 1 THEN arr[1]
    ELSE arr[1] \o sep \o join(Tail(arr), sep)

(***************************************************************************)
(* PageDescriptor records of the search catalog: title, url, optional      *)
(* desc, optional tags (a sequence of strings).                            *)
(***************************************************************************)
D1 == [title |-> <<"A", "b">>, url |-> "a.html",
       desc |-> Undefined, tags |-> Undefined]
D2 == [title |-> <<"b">>, url |-> "b.html",
       desc |-> Some(<<"a">>), tags |-> Some(<< <<"A">>, <<"b">> >>)]
D3 == [title |-> <<"a">>, url |-> "c.html",
       desc |-> Some(<<"b">>), tags |-> Some(<<>>)]
DescriptorPool == {D1, D2, D3}

\* Catalogs: a descriptor repeated up to MaxRepeat times, then a short tail.
Catalogs ==
    {Repeat(<<d>>, k) \o t :
        d \in DescriptorPool, k \in 0..MaxRepeat,
        t \in SeqsUpTo(DescriptorPool, MaxTail)}

QueryChars == {"a", "A", "b", " "}

\* the values one edit of the input leads to: a character typed at the end,
\* or the last character deleted
Edits(value) ==
    {Append(value, c) : c \in IF Len(value) < MaxQueryLen THEN QueryChars ELSE {}}
    \cup (IF value = <<>> THEN {} ELSE {SubSeq(value, 1, Len(value) - 1)})

(***************************************************************************)
(* Search: buildSearchIndex and _runSearch.                                *)
(***************************************************************************)
MaxResults == 10

\* x || '' and x || [] for an optional string or array
OrEmpty(o) == IF IsDefined(o) THEN o[1] ELSE <<>>

\* WIKI_CONFIG.searchIndex = window.WIKI_SEARCH_PAGES || []
buildSearchIndex == Some(OrEmpty(WIKI_SEARCH_PAGES))

\* p.title + ' ' + (p.desc || '') + ' ' + (p.tags || []).join(' ')
SearchText(p) ==
    p.title \o <<" ">> \o OrEmpty(p.desc) \o <<" ">>
        \o join(OrEmpty(p.tags), <<" ">>)

\* mutant: the three fields glued together without the ' ' separators
MatchesQueryNoSeparators(p, q) ==
    includes(toLowerCase(p.title \o OrEmpty(p.desc)
                             \o join(OrEmpty(p.tags), <<" ">>)), q)

\* mutant: the catalog text compared without .toLowerCase()
MatchesQueryCaseSensitive(p, q) == includes(SearchText(p), q)

\* the filter callback of _runSearch, q being query.toLowerCase()
MatchesQuery(p, q) == includes(toLowerCase(SearchText(p)), q)

\* Array.prototype.filter over the catalog, keeping references (positions)
RECURSIVE filter(_, _, _)
filter(index, q, i) ==
    IF i > Len(index) THEN <<>>
    ELSE (IF MatchesQuery(index[i], q) THEN <<i>> ELSE <<>>)
             \o filter(index, q, i + 1)

\* mutant: the cap off by one, slice(0, n + 1)
sliceOneMore(arr, n) == SubSeq(arr, 1, Min(Len(arr), n + 1))

\* Array.prototype.slice(0, n)
slice(arr, n) == SubSeq(arr, 1, Min(Len(arr), n))

\* mutant: the guard without .trim(), !query
IsBlankQueryNoTrim(query) == query = <<>>

\* the guard !query.trim()
IsBlankQuery(query) == trim(query) = <<>>

\* the local matches of _runSearch (empty on the early return)
SearchMatches(index, query) ==
    IF IsBlankQuery(query) THEN <<>>
    ELSE slice(filter(index, toLowerCase(query), 1), MaxResults)

\* one rendered .search-result-item: data-url, title, and desc when truthy
ResultRow(m) ==
    [url |-> m.url, title |-> m.title,
     desc |-> IF OrEmpty(m.desc) # <<>> THEN m.desc ELSE Undefined]

EmptyResults == [kind |-> "empty", query |-> <<>>, rows |-> <<>>]

\* what _runSearch assigns to resultsEl.innerHTML
RenderResults(index, query) ==
    LET ms == SearchMatches(index, query) IN
    IF IsBlankQuery(query)
    THEN [kind |-> "placeholder", query |-> <<>>, rows |-> <<>>]
    ELSE IF ms = <<>>
    THEN [kind |-> "noresults", query |-> query, rows |-> <<>>]
    ELSE [kind |-> "rows", query |-> <<>>,
          rows |-> [k \in 1..Len(ms) |-> ResultRow(index[ms[k]])]]

(***************************************************************************)
(* slugify and the other text helpers of the table of contents.            *)
(***************************************************************************)
Letters == {"a", "b", "A", "B"}
Digits == <<"0", "1", "2", "3", "4", "5", "6", "7", "8", "9">>
WordChars == Letters \cup Range(Digits) \cup {"_"}       \* \w
SlugSeparators == Whitespace \cup {"_", "-"}              \* [\s_-]

\* .replace(/[^\w\s-]/g, '')
RECURSIVE stripNonWord(_)
stripNonWord(s) ==
    IF s = <<>> THEN <<>>
    ELSE (IF Head(s) \in WordChars \cup Whitespace \cup {"-"}
          THEN <<Head(s)>> ELSE <<>>) \o stripNonWord(Tail(s))

\* .replace(/[\s_-]+/g, '-')
RECURSIVE collapseSeparators(_, _)
collapseSeparators(s, inRun) ==
    IF s = <<>> THEN <<>>
    ELSE IF Head(s) \in SlugSeparators
    THEN (IF inRun THEN <<>> ELSE <<"-">>) \o collapseSeparators(Tail(s), TRUE)
    ELSE <<Head(s)>> \o collapseSeparators(Tail(s), FALSE)

\* .replace(/^-+|-+$/g, '')
RECURSIVE stripHyphens(_)
stripHyphens(s) ==
    IF s # <<>> /\ Head(s) = "-" THEN stripHyphens(Tail(s))
    ELSE IF s # <<>> /\ s[Len(s)] = "-"
    THEN stripHyphens(SubSeq(s, 1, Len(s) - 1))
    ELSE s

slugify(text) ==
    stripHyphens(collapseSeparators(stripNonWord(toLowerCase(text)), FALSE))

\* String(i) for a non-negative integer
RECURSIVE itoa(_)
itoa(i) ==
    IF i < 10 THEN <<Digits[i + 1]>>
    ELSE itoa(i \div 10) \o <<Digits[(i % 10) + 1]>>

\* the rest of s after its first "]", s containing one
RECURSIVE afterBracket(_)
afterBracket(s) == IF Head(s) = "]" THEN Tail(s) ELSE afterBracket(Tail(s))

\* .replace(/\[.*?\]/g, '')
RECURSIVE stripCitations(_)
stripCitations(s) ==
    IF s = <<>> THEN <<>>
    ELSE IF Head(s) = "[" /\ "]" \in Range(Tail(s))
    THEN stripCitations(afterBracket(Tail(s)))
    ELSE <<Head(s)>> \o stripCitations(Tail(s))

(***************************************************************************)
(* _buildNestedTOC: html is a sequence of tokens <ol>, </ol> and <li>.     *)
(***************************************************************************)
OpenTok == [tag |-> "ol", level |-> 0, id |-> <<>>, text |-> <<>>]
CloseTok == [tag |-> "/ol", level |-> 0, id |-> <<>>, text |-> <<>>]
LiTok(item) ==
    [tag |-> "li", level |-> item.level, id |-> item.id, text |-> item.text]

\* let html = '<ol>'; let prevLevel = 2;
NestedStartHtml == <<OpenTok>>
NestedStartLevel == 2

\* mutant: a deeper level opens one list, however many levels it skips
NestedEachSingleOpen(html, prevLevel, item) ==
    html
    \o (IF item.level > prevLevel THEN <<OpenTok>>
        ELSE IF item.level < prevLevel
        THEN Repeat(<<CloseTok>>, prevLevel - item.level)
        ELSE <<>>)
    \o <<LiTok(item)>>

\* the body of items.forEach: what it appends to html for one item
NestedEach(html, prevLevel, item) ==
    html
    \o (IF item.level > prevLevel
        THEN Repeat(<<OpenTok>>, item.level - prevLevel)
        ELSE IF item.level < prevLevel
        THEN Repeat(<<CloseTok>>, prevLevel - item.level)
        ELSE <<>>)
    \o <<LiTok(item)>>

\* html += '</ol>'.repeat(Math.max(prevLevel - 1, 1))
NestedClose(html, prevLevel) ==
    html \o Repeat(<<CloseTok>>, Max(prevLevel - 1, 1))

RECURSIVE NestedLoop(_, _, _, _)
NestedLoop(items, pos, html, prevLevel) ==
    IF pos > Len(items) THEN NestedClose(html, prevLevel)
    ELSE NestedLoop(items, pos + 1, NestedEach(html, prevLevel, items[pos]),
                    items[pos].level)

buildNestedTOC(items) ==
    NestedLoop(items, 1, NestedStartHtml, NestedStartLevel)

\* _tocHTML: the title div followed by the nested list
tocHTML(items) == [kind |-> "toc", list |-> buildNestedTOC(items)]

\* _tocSidebarItems: one <li><a href="#id" class="toc-hN">text</a></li> each
tocSidebarItems(items) ==
    [i \in 1..Len(items) |->
        [href |-> items[i].id, level |-> items[i].level, text |-> items[i].text,
         active |-> FALSE]]

(***************************************************************************)
(* buildTOC on a document d.                                               *)
(***************************************************************************)
TocThreshold == 3

\* if (!h.id) h.id = slugify(h.textContent) + '-' + i, i counting from 0
AssignId(h, i) ==
    IF h.id = <<>>
    THEN [h EXCEPT !.id = slugify(h.text) \o <<"-">> \o itoa(i)]
    ELSE h

\* the item of one heading (after its id is assigned)
TocItem(h) ==
    [id |-> h.id, text |-> trim(stripCitations(h.text)), level |-> h.level]

\* mutant: the threshold off by one, headings.length <= 3
BelowThresholdOffByOne(headings) == Len(headings) <= TocThreshold

\* if (headings.length < 3) return;
BelowThreshold(headings) == Len(headings) < TocThreshold

buildTOC(d) ==
    IF ~d.content THEN d
    ELSE IF BelowThreshold(d.headings) THEN d
    ELSE
      LET hs == [i \in 1..Len(d.headings) |-> AssignId(d.headings[i], i - 1)]
          items == [i \in 1..Len(hs) |-> TocItem(hs[i])]
      IN [d EXCEPT
            !.headings = hs,
            !.floatingToc =
                IF IsDefined(@) THEN Some(tocHTML(items)) ELSE @,
            !.tocSidebar =
                IF @ # <<>>
                THEN [@ EXCEPT ![1] =
                        [kind |-> "toc", entries |-> tocSidebarItems(items)]]
                ELSE @]

(***************************************************************************)
(* Sidebar: _sidebarHTML and highlightSidebar.  An href and the pathname   *)
(* are kept split at '/', so .split('/').pop() is the last segment.        *)
(***************************************************************************)
Last(segs) == segs[Len(segs)]

\* window.WIKI_SIDEBAR || WIKI_CONFIG.sidebarLinks
SidebarSections ==
    IF IsDefined(WIKI_SIDEBAR) THEN WIKI_SIDEBAR[1] ELSE sidebarLinks

\* one rendered <li><a>: class="active" when l.href === pathname's last segment
SidebarLink(l) ==
    [href |-> l.href, text |-> l.text,
     active |-> (l.href = <<Last(location.pathname)>>)]

SidebarSection(sec) ==
    [label |-> sec.label,
     links |-> [k \in 1..Len(sec.links) |-> SidebarLink(sec.links[k])]]

sidebarHTML ==
    LET sections == SidebarSections IN
    IF sections = <<>>
    THEN [kind |-> "placeholder", sections |-> <<>>]
    ELSE [kind |-> "sections",
          sections |-> [k \in 1..Len(sections) |-> SidebarSection(sections[k])]]

\* window.location.pathname.split('/').pop() || 'index.html'
CurrentPage ==
    IF Last(location.pathname) = "" THEN "index.html"
    ELSE Last(location.pathname)

\* const href = a.getAttribute('href').split('/').pop();
\* if (href === currentPage) a.classList.add('active')
HighlightLink(a) ==
    IF Last(a.href) = CurrentPage THEN [a EXCEPT !.active = TRUE] ELSE a

HighlightSection(sec) ==
    [sec EXCEPT !.links = [k \in 1..Len(@) |-> HighlightLink(@[k])]]

highlightSidebar(d) ==
    [d EXCEPT !.sidebar =
        [n \in 1..Len(@) |->
            [@[n] EXCEPT !.sections =
                [k \in 1..Len(@) |-> HighlightSection(@[k])]]]]

(***************************************************************************)
(* buildLayout on a document d.                                            *)
(***************************************************************************)
SiteTitle == "MyWiki"                                  \* WIKI_CONFIG.title

\* an <a> as markExternalLinks sees it: http tells whether its href
\* attribute starts with "http", hostname is a.hostname
Anchor(host) ==
    [hostname |-> host, target |-> "", rel |-> "", glyphs |-> 0,
     extIcon |-> FALSE, http |-> TRUE]

\* the link _footerHTML carries: <a href="https://github.com">
FooterLink == Anchor("github.com")

EmptyPanel == [kind |-> "empty", entries |-> <<>>]

\* mutant: the header injected without the check for an existing one
InjectHeaderUnchecked(d) == [d EXCEPT !.header = <<"injected">> \o @]

\* if (!$('#wiki-header')) { ... insertBefore(header, body.firstChild) }
InjectHeader(d) ==
    IF d.header = <<>> THEN [d EXCEPT !.header = <<"injected">>] ELSE d

\* if (!$('#wiki-footer')) { ... body.appendChild(footer) }
InjectFooter(d) ==
    IF d.footer = <<>>
    THEN [d EXCEPT !.footer = <<"injected">>, !.links = @ \o <<FooterLink>>]
    ELSE d

\* the wrapper with its sidebar and TOC side panel around #wiki-content
InjectLayout(d) ==
    [d EXCEPT !.layout = <<"injected">>,
              !.sidebar = @ \o <<sidebarHTML>>,
              !.tocSidebar = @ \o <<EmptyPanel>>]

\* const pageData = window.WIKI_PAGE || {}; if (pageData.title) ...
UpdateTitle(d) ==
    IF IsDefined(WIKI_PAGE) /\ IsDefined(WIKI_PAGE[1].title)
    THEN [d EXCEPT !.title = <<WIKI_PAGE[1].title[1], " - ", SiteTitle>>]
    ELSE d

buildLayout(d) ==
    LET d2 == InjectFooter(InjectHeader(d)) IN
    IF d2.layout = <<>> /\ ~d2.content
    THEN d2                            \* if (!mainContent) return;
    ELSE UpdateTitle(IF d2.layout = <<>> THEN InjectLayout(d2) ELSE d2)

(***************************************************************************)
(* The widget steps of Wiki.init that inject elements.                     *)
(***************************************************************************)
\* initCollapsibles: the icon is added if absent, the listener always
InitCollapsible(col) ==
    IF ~col.header THEN col
    ELSE [col EXCEPT !.icons = IF @ = 0 THEN 1 ELSE @,
                     !.listeners = @ + 1]

initCollapsibles(d) ==
    [d EXCEPT !.collapsibles = [k \in 1..Len(@) |-> InitCollapsible(@[k])]]

\* $('#header-search-input') and $('#header-search-btn'): the injected
\* header has them (_headerHTML), a header of the page's own has them if its
\* markup does (headerSearch)
HasHeaderSearch(d) ==
    "injected" \in Range(d.header) \/ (d.header # <<>> /\ d.headerSearch)

\* initSearch: document.body.appendChild(overlay), unconditionally; the
\* listeners that open the overlay only if (input), if (btn)
initSearch(d) ==
    [d EXCEPT !.overlays = @ + 1,
              !.openListeners = IF HasHeaderSearch(d) THEN @ + 1 ELSE @]

\* mutant: closeSearch without input.value = ''
closeSearchKeepsValue(d) == [d EXCEPT !.overlayOpen = FALSE]

\* closeSearch: overlay.classList.remove('active'); if (input) input.value = ''
closeSearch(d) == [d EXCEPT !.overlayOpen = FALSE, !.headerValue = <<>>]

\* initGalleryLightbox: one more #wiki-lightbox when the page has images
initGalleryLightbox(d) ==
    IF d.images = 0 THEN d ELSE [d EXCEPT !.lightboxes = @ + 1]

\* markExternalLinks, for one <a>: only a[href^="http"] is looked at;
\* .ext-icon is only ever authored
MarkLink(a) ==
    IF ~a.http THEN a
    ELSE IF a.hostname = "" \/ a.hostname = location.hostname THEN a
    ELSE [a EXCEPT !.target = "_blank", !.rel = "noopener noreferrer",
                   !.glyphs = IF a.extIcon THEN @ ELSE @ + 1]

markExternalLinks(d) ==
    [d EXCEPT !.links = [k \in 1..Len(@) |-> MarkLink(@[k])]]

(***************************************************************************)
(* Desmos embeds: .wiki-desmos[data-exprs] containers.  An embed records   *)
(* whether it still holds its <iframe>, whether JSON.parse accepts its     *)
(* data-exprs and data-opts, how many calculators were constructed for it  *)
(* and whether its height was set.                                         *)
(***************************************************************************)
\* JSON.parse of data-exprs and of data-opts both return
ParsesOk(e) == e.exprsOk /\ e.optsOk

\* initDesmosEmbeds, for one container: no iframe, nothing; a parse error is
\* caught (console.warn) and the container is left as it was
InitDesmosEmbed(e) ==
    IF ~e.iframe THEN e
    ELSE IF ParsesOk(e) THEN [e EXCEPT !.calcs = @ + 1]
    ELSE e

initDesmosEmbeds(d) ==
    IF ~Desmos THEN d
    ELSE [d EXCEPT !.embeds = [k \in 1..Len(@) |-> InitDesmosEmbed(@[k])]]

\* index of the first container whose data JSON.parse rejects, 0 if none:
\* wikiInitAllDesmos parses outside any try, so forEach stops there
FirstUnparsable(embeds) ==
    IF \A k \in 1..Len(embeds) : ParsesOk(embeds[k]) THEN 0
    ELSE CHOOSE k \in 1..Len(embeds) :
            /\ ~ParsesOk(embeds[k])
            /\ \A j \in 1..(k - 1) : ParsesOk(embeds[j])

\* wikiInitAllDesmos, for one container whose data parsed
InitAllDesmosOne(e) ==
    IF Desmos
    THEN [e EXCEPT !.sized = TRUE, !.iframe = FALSE, !.calcs = @ + 1]
    ELSE [e EXCEPT !.sized = TRUE]

\* the exception of JSON.parse leaves wikiInitAllDesmos
wikiInitAllDesmosThrows(d) == FirstUnparsable(d.embeds) # 0

wikiInitAllDesmos(d) ==
    LET bad == FirstUnparsable(d.embeds) IN
    [d EXCEPT !.embeds =
        [k \in 1..Len(@) |->
            IF bad = 0 \/ k < bad THEN InitAllDesmosOne(@[k]) ELSE @[k]]]

(***************************************************************************)
(* Tabs: a .wiki-tabs container holds, in document order, the active class *)
(* of each .wiki-tab-btn and of each .wiki-tab-panel, and the number of    *)
(* click listeners initTabs has put on each button.  clicked is the index  *)
(* of the button clicked last (0: none yet) and plainMarkup whether the    *)
(* page's markup marks no button or panel other than the first as active;  *)
(* neither is read by the code.  Containers are not nested in one another. *)
(***************************************************************************)
\* if (buttons[0]) buttons[0].classList.add('active'), the same for panels
ActivateFirst(flags) == [k \in 1..Len(flags) |-> (k = 1 \/ flags[k])]

InitTabContainer(t) ==
    [t EXCEPT !.buttons = ActivateFirst(@), !.panels = ActivateFirst(@),
              !.listeners = @ + 1]

initTabs(d) ==
    [d EXCEPT !.tabs = [c \in 1..Len(@) |-> InitTabContainer(@[c])]]

\* mutant: the click adds the active class without removing it elsewhere
TabClickNoClear(t, i) ==
    [t EXCEPT !.buttons = [k \in 1..Len(@) |-> (@[k] \/ k = i)],
              !.panels = [k \in 1..Len(@) |-> (@[k] \/ k = i)]]

\* the click listener of button i: remove 'active' from every button and
\* panel, add it to the button and, if (panels[i]), to that panel
TabClick(t, i) ==
    [t EXCEPT !.buttons = [k \in 1..Len(@) |-> (k = i)],
              !.panels = [k \in 1..Len(@) |-> (k = i)]]

(***************************************************************************)
(* Mobile menu: the toggle button #mobile-menu-btn of the header and the   *)
(* class 'open' of #wiki-sidebar.  A click has a target: "toggle" (the     *)
(* button), "sidebar" (an element inside #wiki-sidebar) or "elsewhere".    *)
(***************************************************************************)
\* $('#mobile-menu-btn'): the injected header has it (_headerHTML), a header
\* of the page's own has it if its markup does (menuBtn)
HasMenuBtn(d) == "injected" \in Range(d.header) \/ (d.header # <<>> /\ d.menuBtn)

\* if (!btn || !sidebar) return; else one listener on btn, one on document
initMobileMenu(d) ==
    IF ~HasMenuBtn(d) \/ d.sidebar = <<>> THEN d
    ELSE [d EXCEPT !.menuListeners = @ + 1]

\* btn's listener: sidebar.classList.toggle('open')
MenuBtnClick(open) == ~open

\* mutant: document's listener without the test e.target !== btn
DocumentClickAnyTarget(open, target) ==
    IF open /\ target # "sidebar" THEN FALSE ELSE open

\* document's listener: open, target outside the sidebar and not btn: close
DocumentClick(open, target) ==
    IF open /\ target # "sidebar" /\ target # "toggle" THEN FALSE ELSE open

\* the n listeners of document run one after the other
RECURSIVE DocumentClicks(_, _, _)
DocumentClicks(open, target, n) ==
    IF n = 0 THEN open
    ELSE DocumentClicks(DocumentClick(open, target), target, n - 1)

\* the n listeners of btn run one after the other
RECURSIVE MenuBtnClicks(_, _)
MenuBtnClicks(open, n) ==
    IF n = 0 THEN open ELSE MenuBtnClicks(MenuBtnClick(open), n - 1)

\* one click: the listeners of the target first (btn's, when the target is
\* btn), then, the event bubbling, those of document
DispatchClick(d, target) ==
    LET atTarget == IF target = "toggle"
                    THEN MenuBtnClicks(d.sidebarOpen, d.menuListeners)
                    ELSE d.sidebarOpen
    IN [d EXCEPT !.sidebarOpen =
            DocumentClicks(atTarget, target, d.menuListeners)]

(***************************************************************************)
(* Scroll-spy.  The links are the <a> of .toc-sidebar-list, which is the   *)
(* list buildTOC writes into the TOC side panel; the observed headings are *)
(* every h2, h3, h4 of the document that has an id attribute: those of     *)
(* the article body and those outside it (d.outside, their ids).           *)
(***************************************************************************)
\* $$('.toc-sidebar-list a')
SpyLinks(d) ==
    IF d.tocSidebar # <<>> /\ d.tocSidebar[1].kind = "toc"
    THEN d.tocSidebar[1].entries ELSE <<>>

\* $$('h2[id], h3[id], h4[id]'): the ids of the headings to observe
HeadingIds(d) ==
    {d.headings[i].id : i \in {k \in 1..Len(d.headings) :
                                  d.content /\ d.headings[k].id # <<>>}}
        \cup Range(d.outside)

\* if (!links.length) return; else one observer on the headings with an id
initScrollSpy(d) ==
    IF SpyLinks(d) = <<>> THEN d
    ELSE [d EXCEPT !.observers = @ + 1, !.observed = HeadingIds(d)]

\* links.find(l => l.getAttribute('href') === '#' + id), as an index, 0 if none
FindLink(links, id) ==
    IF \A k \in 1..Len(links) : links[k].href # id THEN 0
    ELSE CHOOSE k \in 1..Len(links) :
            /\ links[k].href = id
            /\ \A j \in 1..(k - 1) : links[j].href # id

\* mutant: the found link is marked without clearing the others
SpyEntryNoClear(links, entry) ==
    IF ~entry.isIntersecting THEN links
    ELSE [k \in 1..Len(links) |->
            [links[k] EXCEPT !.active = (@ \/ k = FindLink(links, entry.id))]]

\* the callback's body for one entry
SpyEntry(links, entry) ==
    IF ~entry.isIntersecting THEN links
    ELSE [k \in 1..Len(links) |->
            [links[k] EXCEPT !.active = (k = FindLink(links, entry.id))]]

\* entries.forEach(...)
RECURSIVE SpyCallback(_, _)
SpyCallback(links, entries) ==
    IF entries = <<>> THEN links
    ELSE SpyCallback(SpyEntry(links, Head(entries)), Tail(entries))

\* Wiki.init's steps on the document, in the order of the source
InitDocument(d) ==
    markExternalLinks(initScrollSpy(initGalleryLightbox(initDesmosEmbeds(
        highlightSidebar(initMobileMenu(initSearch(initCollapsibles(initTabs(
            buildTOC(buildLayout(d)))))))))))

\* a click on a collapsible's header runs every registered listener
RECURSIVE Toggle(_, _)
Toggle(open, n) == IF n = 0 THEN open ELSE Toggle(~open, n - 1)

(***************************************************************************)
(* Inputs: documents, globals and catalogs a page can have at load.        *)
(***************************************************************************)
SectionsA ==
    << [label |-> "Navigation",
        links |-> << [text |-> "Home", href |-> <<"..", "index.html">>],
                     [text |-> "About", href |-> <<"about.html">>] >>] >>
SectionsB ==
    << [label |-> "Site",
        links |-> << [text |-> "Recent", href |-> <<"recent.html">>] >>] >>
NavSections ==
    << [label |-> "Articles",
        links |-> << [text |-> "My Article",
                      href |-> <<"pages", "my-article.html">>] >>] >>

AuthoredSidebar ==
    [kind |-> "authored",
     sections |-> << [label |-> "Own",
                      links |-> << [text |-> "About",
                                    href |-> <<"about.html">>,
                                    active |-> FALSE] >>] >>]

AuthoredToc == [kind |-> "authored", list |-> <<>>]

\* h2..h4 elements of the article body; authored records whether the id
\* attribute was written by the author (it is never changed afterwards)
Heading(id, text, level) ==
    [id |-> id, text |-> text, level |-> level, authored |-> (id # <<>>)]
H1 == Heading(<<>>, <<"a">>, 2)
H2 == Heading(<<"a", "-", "1">>, <<"b">>, 3)
H3 == Heading(<<>>, <<"A", " ", "b", "[", "1", "]">>, 4)
H4 == Heading(<<"x">>, <<"a">>, 2)
H5 == Heading(<<>>, <<"!">>, 3)
HeadingPool == {H1, H2, H3, H4, H5}

Collapsibles ==
    {[header |-> h, icons |-> n, listeners |-> 0, open |-> FALSE] :
        h \in BOOLEAN, n \in {0, 1}}

PageLocation ==
    [pathname |-> <<"", "pages", "about.html">>, hostname |-> "wiki.example"]

BlankDoc ==
    [header |-> <<>>, footer |-> <<>>, layout |-> <<>>, sidebar |-> <<>>,
     tocSidebar |-> <<>>, content |-> TRUE, title |-> <<"authored">>,
     headings |-> <<>>, floatingToc |-> Undefined, overlays |-> 0,
     lightboxes |-> 0, images |-> 0, collapsibles |-> <<>>, links |-> <<>>,
     embeds |-> <<>>, tabs |-> <<>>, menuBtn |-> FALSE,
     sidebarOpen |-> FALSE, menuListeners |-> 0, outside |-> <<>>,
     observers |-> 0, observed |-> {}, spyEntries |-> <<>>,
     headerSearch |-> FALSE, headerValue |-> <<>>, overlayOpen |-> FALSE,
     openListeners |-> 0, closedOnce |-> FALSE]

\* the state at script load, before DOMContentLoaded, of everything but the
\* inputs a specification varies
LoadState ==
    /\ searchIndex = Undefined
    /\ overlayValue = <<>>
    /\ matches = <<>>
    /\ resultsHTML = EmptyResults
    /\ location = PageLocation
    /\ initCount = 0
    /\ layoutCalls = 0
    /\ tocCalls = 0
    /\ phase = "loading"
    /\ loadListener = FALSE
    /\ raised = FALSE
    /\ event = "none"

NestedItem(l) == [id |-> <<"h">>, text |-> <<"a">>, level |-> l]

NestedIdle ==
    /\ nItems = <<>>
    /\ nPos = 1
    /\ nHtml = NestedStartHtml
    /\ nPrevLevel = NestedStartLevel
    /\ nPc = "idle"

nestedVars == <<nItems, nPos, nHtml, nPrevLevel, nPc>>
globalVars == <<WIKI_SEARCH_PAGES, WIKI_SIDEBAR, WIKI_PAGE, navJson,
                sidebarLinks, location, pagesJson, Desmos>>
loadVars == <<phase, loadListener, raised, event>>
searchVars == <<overlayValue, matches, resultsHTML>>

(***************************************************************************)
(* Actions.                                                                *)
(***************************************************************************)
\* Wiki.init(), as the DOMContentLoaded handler or a page script calls it
WikiInit ==
    /\ initCount < MaxInits
    /\ doc' = InitDocument(doc)
    /\ searchIndex' = buildSearchIndex
    /\ initCount' = initCount + 1
    /\ layoutCalls' = layoutCalls + 1
    /\ tocCalls' = tocCalls + 1
    /\ UNCHANGED <<globalVars, searchVars, nestedVars, loadVars>>

\* Wiki.buildLayout() called on its own
BuildLayoutCall ==
    /\ layoutCalls < MaxInits
    /\ doc' = buildLayout(doc)
    /\ layoutCalls' = layoutCalls + 1
    /\ UNCHANGED <<globalVars, searchVars, nestedVars, loadVars, searchIndex,
                   initCount, tocCalls>>

\* Wiki.buildTOC() called on its own
BuildTOCCall ==
    /\ tocCalls < MaxInits
    /\ doc' = buildTOC(doc)
    /\ tocCalls' = tocCalls + 1
    /\ UNCHANGED <<globalVars, searchVars, nestedVars, loadVars, searchIndex,
                   initCount, layoutCalls>>

\* an input event on #search-overlay-input: _runSearch(value, results)
InputEvent(q) ==
    /\ doc.overlays >= 1
    /\ overlayValue' = q
    /\ matches' = SearchMatches(OrEmpty(searchIndex), q)
    /\ resultsHTML' = RenderResults(OrEmpty(searchIndex), q)
    /\ UNCHANGED <<globalVars, nestedVars, loadVars, searchIndex, doc, initCount,
                   layoutCalls, tocCalls>>

\* a click on the header of collapsible k
ClickCollapsible(k) ==
    /\ doc.collapsibles[k].header
    /\ doc.collapsibles[k].listeners > 0
    /\ doc' = [doc EXCEPT !.collapsibles[k].open =
                            Toggle(@, doc.collapsibles[k].listeners)]
    /\ UNCHANGED <<globalVars, searchVars, nestedVars, loadVars, searchIndex,
                   initCount, layoutCalls, tocCalls>>

\* the DOMContentLoaded handler: Wiki.init(), then wikiInitAllDesmos() if
\* Desmos is defined, else a window 'load' listener that will try again
DOMContentLoaded ==
    /\ phase = "loading"
    /\ phase' = "interactive"
    /\ searchIndex' = buildSearchIndex
    /\ initCount' = initCount + 1
    /\ layoutCalls' = layoutCalls + 1
    /\ tocCalls' = tocCalls + 1
    /\ LET d == InitDocument(doc) IN
       IF Desmos
       THEN /\ doc' = wikiInitAllDesmos(d)
            /\ raised' = (raised \/ wikiInitAllDesmosThrows(d))
            /\ loadListener' = loadListener
       ELSE /\ doc' = d
            /\ raised' = raised
            /\ loadListener' = TRUE
    /\ UNCHANGED <<globalVars, searchVars, nestedVars, event>>

\* the Desmos script finishes loading (it is asynchronous, and the window
\* 'load' event waits for it)
DesmosLoaded ==
    /\ ~Desmos
    /\ phase # "complete"
    /\ Desmos' = TRUE
    /\ UNCHANGED <<WIKI_SEARCH_PAGES, WIKI_SIDEBAR, WIKI_PAGE, navJson,
                   sidebarLinks, location, pagesJson, searchVars, nestedVars,
                   loadVars, searchIndex, doc, initCount, layoutCalls,
                   tocCalls>>

\* the window 'load' event: the listener, if set, runs wikiInitAllDesmos()
\* when Desmos is defined by then
LoadEvent ==
    /\ phase = "interactive"
    /\ phase' = "complete"
    /\ IF loadListener /\ Desmos
       THEN /\ doc' = wikiInitAllDesmos(doc)
            /\ raised' = (raised \/ wikiInitAllDesmosThrows(doc))
       ELSE UNCHANGED <<doc, raised>>
    /\ UNCHANGED <<globalVars, searchVars, nestedVars, searchIndex,
                   initCount, layoutCalls, tocCalls, loadListener, event>>

\* a click on button i of tab container c; each listener initTabs put on
\* the button runs, and running TabClick again changes nothing more
ClickTab(c, i) ==
    /\ doc.tabs[c].listeners > 0
    /\ doc' = [doc EXCEPT !.tabs[c] = [TabClick(@, i) EXCEPT !.clicked = i]]
    /\ event' = "tab"
    /\ UNCHANGED <<globalVars, searchVars, nestedVars, searchIndex,
                   initCount, layoutCalls, tocCalls, phase, loadListener,
                   raised>>

\* a click, after the bootstrap, on the toggle button, inside the sidebar or
\* anywhere else on the page
ClickPage(target) ==
    /\ phase # "loading"
    /\ target = "toggle" => HasMenuBtn(doc)
    /\ target = "sidebar" => doc.sidebar # <<>>
    /\ doc' = DispatchClick(doc, target)
    /\ event' = target
    /\ UNCHANGED <<globalVars, searchVars, nestedVars, searchIndex,
                   initCount, layoutCalls, tocCalls, phase, loadListener,
                   raised>>

\* the IntersectionObserver delivers entries to its callback; spyEntries
\* keeps them for the record, the code does not
ObserverCallback(entries) ==
    /\ doc.observers >= 1
    /\ entries # <<>>
    /\ \A k \in 1..Len(entries) : entries[k].id \in doc.observed
    /\ doc' = [doc EXCEPT !.tocSidebar[1].entries = SpyCallback(@, entries),
                          !.spyEntries = entries]
    /\ event' = "intersect"
    /\ UNCHANGED <<globalVars, searchVars, nestedVars, searchIndex,
                   initCount, layoutCalls, tocCalls, phase, loadListener,
                   raised>>

\* openSearch, on focus of the header input or a click on the header button:
\* the overlay is shown, its input takes the header input's value and
\* _runSearch runs on it
OpenSearch ==
    /\ doc.openListeners >= 1
    /\ doc' = [doc EXCEPT !.overlayOpen = TRUE]
    /\ overlayValue' = doc.headerValue
    /\ matches' = SearchMatches(OrEmpty(searchIndex), doc.headerValue)
    /\ resultsHTML' = RenderResults(OrEmpty(searchIndex), doc.headerValue)
    /\ event' = "open"
    /\ UNCHANGED <<globalVars, nestedVars, searchIndex, initCount,
                   layoutCalls, tocCalls, phase, loadListener, raised>>

\* closeSearch, on a click on the close button or on the backdrop (both
\* need the overlay shown) or on Escape (a document listener); closedOnce
\* records that a close happened, the code does not
CloseSearch(how) ==
    /\ doc.overlays >= 1
    /\ how \in {"button", "backdrop"} => doc.overlayOpen
    /\ doc' = [closeSearch(doc) EXCEPT !.closedOnce = TRUE]
    /\ event' = "close"
    /\ UNCHANGED <<globalVars, searchVars, nestedVars, searchIndex,
                   initCount, layoutCalls, tocCalls, phase, loadListener,
                   raised>>

\* the user types in the overlay's input, which takes the overlay to be
\* shown: the input event runs _runSearch(overlayInput.value, results)
TypeInOverlay(q) ==
    /\ doc.overlayOpen
    /\ overlayValue' = q
    /\ matches' = SearchMatches(OrEmpty(searchIndex), q)
    /\ resultsHTML' = RenderResults(OrEmpty(searchIndex), q)
    /\ event' = "input"
    /\ UNCHANGED <<globalVars, nestedVars, searchIndex, doc, initCount,
                   layoutCalls, tocCalls, phase, loadListener, raised>>

pageVars == <<globalVars, searchVars, loadVars, searchIndex, doc, initCount,
              layoutCalls, tocCalls>>

\* one iteration of items.forEach in _buildNestedTOC
NestedEachStep ==
    /\ nPc = "loop"
    /\ nPos <= Len(nItems)
    /\ nHtml' = NestedEach(nHtml, nPrevLevel, nItems[nPos])
    /\ nPrevLevel' = nItems[nPos].level
    /\ nPos' = nPos + 1
    /\ UNCHANGED <<pageVars, nItems, nPc>>

\* the closing html += '</ol>'.repeat(...) and the return
NestedCloseStep ==
    /\ nPc = "loop"
    /\ nPos > Len(nItems)
    /\ nHtml' = NestedClose(nHtml, nPrevLevel)
    /\ nPc' = "done"
    /\ UNCHANGED <<pageVars, nItems, nPos, nPrevLevel>>

(***************************************************************************)
(* Specifications.                                                         *)
(***************************************************************************)
\* The page bootstrap and its widgets.
Init ==
    /\ LoadState
    /\ NestedIdle
    /\ WIKI_SEARCH_PAGES \in {Undefined, Some(<<D1, D2>>)}
    /\ WIKI_SIDEBAR = Some(SectionsA)
    /\ WIKI_PAGE = Undefined
    /\ navJson = Undefined
    /\ pagesJson = Undefined
    /\ Desmos = FALSE
    /\ sidebarLinks = <<>>
    /\ \E c \in BOOLEAN, im \in {0, 1}, cols \in SeqsUpTo(Collapsibles, 1),
          ls \in SeqsUpTo({Anchor(h) : h \in {"wiki.example", "other.example"}}
                          \cup {[Anchor("other.example") EXCEPT !.extIcon = TRUE]}, 1) :
          doc = [BlankDoc EXCEPT !.content = c, !.images = im,
                                 !.collapsibles = cols, !.links = ls]

Next ==
    \/ WikiInit
    \/ \E q \in Edits(overlayValue) : InputEvent(q)
    \/ \E k \in 1..Len(doc.collapsibles) : ClickCollapsible(k)

Spec == Init /\ [][Next]_vars

\* The search over every catalog and query, on a page whose bootstrap has
\* run: Wiki.init has built the index and appended the overlay.
SearchInit ==
    /\ NestedIdle
    /\ WIKI_SEARCH_PAGES \in {Undefined} \cup {Some(c) : c \in Catalogs}
    /\ WIKI_SIDEBAR = Undefined
    /\ WIKI_PAGE = Undefined
    /\ navJson = Undefined
    /\ pagesJson = Undefined
    /\ Desmos = FALSE
    /\ sidebarLinks = <<>>
    /\ location = PageLocation
    /\ searchIndex = buildSearchIndex
    /\ doc = InitDocument(BlankDoc)
    /\ overlayValue = <<>>
    /\ matches = <<>>
    /\ resultsHTML = EmptyResults
    /\ initCount = 1
    /\ layoutCalls = 1
    /\ tocCalls = 1
    /\ phase = "interactive"
    /\ loadListener = TRUE
    /\ raised = FALSE
    /\ event = "none"

SearchNext == \E q \in Edits(overlayValue) : InputEvent(q)

SearchSpec == SearchInit /\ [][SearchNext]_vars

\* The table of contents over every heading sequence.
TocInit ==
    /\ LoadState
    /\ NestedIdle
    /\ WIKI_SEARCH_PAGES = Undefined
    /\ WIKI_SIDEBAR = Undefined
    /\ WIKI_PAGE = Undefined
    /\ navJson = Undefined
    /\ pagesJson = Undefined
    /\ Desmos = FALSE
    /\ sidebarLinks = <<>>
    /\ \E hs \in SeqsUpTo(HeadingPool, MaxHeadings),
          ft \in {Undefined, Some(AuthoredToc)}, c \in BOOLEAN :
          /\ ~c => hs = <<>> /\ ft = Undefined
          /\ doc = [BlankDoc EXCEPT !.headings = hs, !.floatingToc = ft,
                                    !.content = c]

TocNext ==
    \/ WikiInit
    \/ BuildTOCCall

TocSpec == TocInit /\ [][TocNext]_vars

\* The layout shell over every document shape and sidebar source.
LayoutInit ==
    /\ LoadState
    /\ NestedIdle
    /\ WIKI_SEARCH_PAGES = Undefined
    /\ WIKI_SIDEBAR \in {Undefined, Some(<<>>), Some(SectionsA)}
    /\ WIKI_PAGE \in {Undefined, Some([title |-> Undefined]),
                      Some([title |-> Some("Article")])}
    /\ navJson \in {Undefined, Some(NavSections)}
    /\ pagesJson = Undefined
    /\ Desmos = FALSE
    /\ sidebarLinks \in {<<>>, SectionsB}
    /\ \E h \in {<<>>, <<"authored">>}, f \in {<<>>, <<"authored">>},
          l \in {<<>>, <<"authored">>}, c \in BOOLEAN,
          sb \in {<<>>, <<AuthoredSidebar>>}, tp \in {<<>>, <<EmptyPanel>>} :
          /\ l = <<>> => sb = <<>> /\ tp = <<>>
          /\ doc = [BlankDoc EXCEPT !.header = h, !.footer = f, !.layout = l,
                                    !.content = c, !.sidebar = sb,
                                    !.tocSidebar = tp]

LayoutNext ==
    \/ WikiInit
    \/ BuildLayoutCall

LayoutSpec == LayoutInit /\ [][LayoutNext]_vars

\* _buildNestedTOC, one loop iteration at a time, over every level sequence.
NestedInit ==
    /\ LoadState
    /\ WIKI_SEARCH_PAGES = Undefined
    /\ WIKI_SIDEBAR = Undefined
    /\ WIKI_PAGE = Undefined
    /\ navJson = Undefined
    /\ pagesJson = Undefined
    /\ Desmos = FALSE
    /\ sidebarLinks = <<>>
    /\ doc = BlankDoc
    /\ nItems \in SeqsUpTo({NestedItem(l) : l \in {2, 3, 4}}, MaxItems)
    /\ nPos = 1
    /\ nHtml = NestedStartHtml
    /\ nPrevLevel = NestedStartLevel
    /\ nPc = "loop"

NestedNext ==
    \/ NestedEachStep
    \/ NestedCloseStep

NestedSpec == NestedInit /\ [][NestedNext]_vars

(***************************************************************************)
(* Search claims, checked under SearchSpec.  A search has run once         *)
(* #search-results holds anything; the catalog is the loaded searchIndex.  *)
(***************************************************************************)
Searched == resultsHTML.kind # "empty"
Catalog == OrEmpty(searchIndex)

\* a query that is empty or consists only of whitespace
AllWhitespace(q) == \A i \in 1..Len(q) : q[i] \in Whitespace

\* title, desc ('' if absent) and the tags joined by spaces, glued with
\* nothing in between
GluedFields(p) ==
    p.title \o OrEmpty(p.desc) \o join(OrEmpty(p.tags), <<" ">>)

\* title, desc ('' if absent) and the tags joined by spaces, the three
\* separated by single spaces
SpacedFields(p) ==
    join(<<p.title, OrEmpty(p.desc), join(OrEmpty(p.tags), <<" ">>)>>, <<" ">>)

\* d matches q: lower-cased q is a substring of d's lower-cased spaced fields
Matching(d, q) == includes(toLowerCase(SpacedFields(d)), toLowerCase(q))

\* the catalog positions whose descriptor matches q
MatchingPositions(q) ==
    {i \in 1..Len(Catalog) : Matching(Catalog[i], q)}

\* C1 as stated: after a search with a non-blank query, the lower-cased query
\* is a substring of the lower-cased concatenation title + desc + tags-joined
\* of every returned descriptor.
C1_ReturnedContainQueryGlued ==
    (Searched /\ ~AllWhitespace(overlayValue)) =>
        \A k \in 1..Len(matches) :
            includes(toLowerCase(GluedFields(Catalog[matches[k]])),
                     toLowerCase(overlayValue))

\* C1 amended: after a search with a non-blank query, the lower-cased query
\* is a substring of the lower-cased text title + ' ' + desc + ' ' +
\* tags-joined-by-spaces of every returned descriptor, and every rendered
\* row is the row of a returned descriptor.
C1_ReturnedContainQuery ==
    (Searched /\ ~AllWhitespace(overlayValue)) =>
        /\ \A k \in 1..Len(matches) :
              /\ matches[k] \in 1..Len(Catalog)
              /\ Matching(Catalog[matches[k]], overlayValue)
        /\ Len(resultsHTML.rows) = Len(matches)
        /\ \A k \in 1..Len(matches) :
              /\ resultsHTML.rows[k].url = Catalog[matches[k]].url
              /\ resultsHTML.rows[k].title = Catalog[matches[k]].title

\* C1 witness: a mixed-case query that runs into a field separator returned
\* two or more descriptors
C1_Witness ==
    /\ resultsHTML.kind = "rows"
    /\ Len(matches) >= 2
    /\ overlayValue = <<"A", " ">>

\* C2: after a search with a non-blank query matching m descriptors, exactly
\* min(10, m) descriptors are returned and the k-th returned one is the k-th
\* matching catalog entry (catalog order, equal entries kept apart).
C2_FirstTenInCatalogOrder ==
    (Searched /\ ~AllWhitespace(overlayValue)) =>
        LET M == MatchingPositions(overlayValue) IN
        /\ Len(matches) = Min(MaxResults, Cardinality(M))
        /\ \A k \in 1..Len(matches) :
              /\ matches[k] \in M
              /\ Cardinality({j \in M : j <= matches[k]}) = k
        /\ resultsHTML.kind = (IF M = {} THEN "noresults" ELSE "rows")
        /\ Len(resultsHTML.rows) = Len(matches)

\* C2 witness: more than ten entries match, a non-matching entry lies among
\* them, and ten are returned
C2_Witness ==
    /\ Searched
    /\ Cardinality(MatchingPositions(overlayValue)) > MaxResults
    /\ \E i \in 1..Len(Catalog) :
          /\ i \notin MatchingPositions(overlayValue)
          /\ \E j \in MatchingPositions(overlayValue) : j > i
    /\ Len(matches) = MaxResults

\* C3: after a search with an empty or whitespace-only query nothing is
\* returned and #search-results shows the "Start typing" placeholder: no row,
\* no no-results message.
C3_BlankQueryShowsPlaceholder ==
    (Searched /\ AllWhitespace(overlayValue)) =>
        /\ matches = <<>>
        /\ resultsHTML.kind = "placeholder"
        /\ resultsHTML.rows = <<>>

\* C3 witness: a whitespace-only query was searched over a non-empty catalog
C3_Witness ==
    /\ Searched
    /\ overlayValue = <<" ">>
    /\ Catalog # <<>>
    /\ resultsHTML.kind = "placeholder"

\* C4 as stated: after searching a case variant of the title of the catalog
\* entry at position i, that entry is among the returned ones.
C4_TitleQueryReturnsEntry ==
    Searched =>
        \A i \in 1..Len(Catalog) :
            toLowerCase(overlayValue) = toLowerCase(Catalog[i].title)
                => i \in Range(matches)

\* C4 amended: after searching a non-blank case variant of the title of the
\* catalog entry at position i, that entry is among the returned ones
\* provided fewer than ten earlier catalog entries match the query.
C4_TitleQueryReturnsEntryWithinCap ==
    Searched =>
        \A i \in 1..Len(Catalog) :
            ( /\ toLowerCase(overlayValue) = toLowerCase(Catalog[i].title)
              /\ ~AllWhitespace(overlayValue)
              /\ Cardinality({j \in MatchingPositions(overlayValue) : j < i})
                    < MaxResults )
                => i \in Range(matches)

\* C4 witness: a query differing from a title only in case returned that
\* entry behind other matching entries
C4_Witness ==
    /\ Searched
    /\ \E i \in 2..Len(Catalog) :
          /\ overlayValue # Catalog[i].title
          /\ toLowerCase(overlayValue) = toLowerCase(Catalog[i].title)
          /\ i \in Range(matches)
          /\ matches[1] # i

(***************************************************************************)
(* Table-of-contents claims, checked under TocSpec (C5, C6) and            *)
(* NestedSpec (C7).                                                        *)
(***************************************************************************)
\* the <li> entries of a nested list, in order
RECURSIVE ListEntries(_)
ListEntries(list) ==
    IF list = <<>> THEN <<>>
    ELSE (IF Head(list).tag = "li" THEN <<Head(list)>> ELSE <<>>)
             \o ListEntries(Tail(list))

\* a floating TOC or side panel holds a rendered table of contents
FloatingRendered ==
    IsDefined(doc.floatingToc) /\ doc.floatingToc[1].kind = "toc"
PanelRendered(n) == doc.tocSidebar[n].kind = "toc"

\* C5: once buildTOC has run, with fewer than 3 headings neither the floating
\* TOC nor a side panel holds a rendered TOC; with 3 or more, the floating TOC
\* (if the page has one) and the side panel (if present) each hold exactly one
\* entry per heading, in document order, pointing at that heading's anchor.
C5_TocEntriesPerHeading ==
    tocCalls >= 1 =>
        IF Len(doc.headings) < TocThreshold
        THEN /\ ~FloatingRendered
             /\ \A n \in 1..Len(doc.tocSidebar) : ~PanelRendered(n)
        ELSE /\ IsDefined(doc.floatingToc) =>
                  /\ FloatingRendered
                  /\ LET es == ListEntries(doc.floatingToc[1].list) IN
                     /\ Len(es) = Len(doc.headings)
                     /\ \A i \in 1..Len(es) :
                           /\ es[i].id = doc.headings[i].id
                           /\ es[i].level = doc.headings[i].level
             /\ doc.tocSidebar # <<>> =>
                  /\ PanelRendered(1)
                  /\ LET es == doc.tocSidebar[1].entries IN
                     /\ Len(es) = Len(doc.headings)
                     /\ \A i \in 1..Len(es) :
                           /\ es[i].href = doc.headings[i].id
                           /\ es[i].level = doc.headings[i].level

\* C5 witness: exactly 3 headings of three levels, rendered in both places
C5_Witness ==
    /\ tocCalls >= 1
    /\ Len(doc.headings) = TocThreshold
    /\ {doc.headings[i].level : i \in 1..Len(doc.headings)} = {2, 3, 4}
    /\ FloatingRendered
    /\ doc.tocSidebar # <<>>
    /\ PanelRendered(1)

\* C6: once buildTOC has collected 3 or more headings whose authored ids are
\* pairwise distinct, the anchors of all collected headings are pairwise
\* distinct.
C6_AnchorsPairwiseDistinct ==
    LET hs == doc.headings
        AuthoredDistinct ==
            \A i, j \in 1..Len(hs) :
                (i # j /\ hs[i].authored /\ hs[j].authored)
                    => hs[i].id # hs[j].id
    IN (tocCalls >= 1 /\ doc.content /\ Len(hs) >= TocThreshold
            /\ AuthoredDistinct)
        => \A i, j \in 1..Len(hs) : i # j => hs[i].id # hs[j].id

\* list levels opened minus list levels closed in a token sequence
RECURSIVE Depth(_)
Depth(html) ==
    IF html = <<>> THEN 0
    ELSE Depth(Tail(html))
         + (IF Head(html).tag = "ol" THEN 1
            ELSE IF Head(html).tag = "/ol" THEN -1 ELSE 0)

\* C7: in _buildNestedTOC, for every sequence of levels from {2,3,4}, the
\* count of opened minus closed list levels is at least one after every token
\* emitted before the end, equals (level - 1) right after each entry, and is
\* exactly zero at the end of the output.
C7_NestedListBalanced ==
    /\ nPc = "loop" =>
          /\ \A k \in 1..Len(nHtml) : Depth(SubSeq(nHtml, 1, k)) >= 1
          /\ nPos > 1 =>
                /\ nHtml[Len(nHtml)].tag = "li"
                /\ Depth(nHtml) = nItems[nPos - 1].level - 1
    /\ nPc = "done" =>
          /\ Depth(nHtml) = 0
          /\ \A k \in 1..(Len(nHtml) - 1) : Depth(SubSeq(nHtml, 1, k)) >= 1
          /\ Len(ListEntries(nHtml)) = Len(nItems)

\* C7 witness: a finished list whose levels jump from 2 to 4 and back to 2
C7_Witness ==
    /\ nPc = "done"
    /\ \E i \in 1..(Len(nItems) - 2) :
          /\ nItems[i].level = 2
          /\ nItems[i + 1].level = 4
          /\ nItems[i + 2].level = 2

(***************************************************************************)
(* Page-chrome claims, checked under LayoutSpec (C8, C10) and Spec (C9).   *)
(***************************************************************************)
\* one element of each kind of chrome
OneOfEach ==
    /\ Len(doc.header) = 1
    /\ Len(doc.footer) = 1
    /\ Len(doc.layout) = 1
    /\ Len(doc.sidebar) = 1
    /\ Len(doc.tocSidebar) = 1

\* C8 as stated: after two or more invocations of buildLayout the document
\* holds exactly one header, one footer and one layout wrapper with one
\* sidebar and one TOC side panel.
C8_TwiceLeavesOneOfEach == layoutCalls >= 2 => OneOfEach

\* C8 amended: after any number of invocations of buildLayout the document
\* holds exactly one header, one footer and at most one layout wrapper;
\* exactly one wrapper with one sidebar and one TOC side panel when the
\* document has the article body and had no wrapper of its own; and one more
\* invocation changes nothing.
C8_LayoutIdempotent ==
    layoutCalls >= 1 =>
        /\ Len(doc.header) = 1
        /\ Len(doc.footer) = 1
        /\ Len(doc.layout) <= 1
        /\ (doc.content /\ doc.layout # <<"authored">>) =>
              (OneOfEach /\ doc.layout = <<"injected">>)
        /\ buildLayout(doc) = doc

\* C8 witness: buildLayout has run twice on a page with an authored header
\* and an unwrapped article body
C8_Witness ==
    /\ layoutCalls >= 2
    /\ initCount = 0
    /\ doc.header = <<"authored">>
    /\ doc.footer = <<"injected">>
    /\ doc.layout = <<"injected">>
    /\ OneOfEach

\* C9: after two or more invocations of Wiki.init the page holds what one
\* invocation leaves: one search overlay, at most one lightbox, at most one
\* disclosure icon per collapsible, at most one glyph per link, and one click
\* listener per collapsible header (a click toggles it once).
C9_InitTwiceAddsNothing ==
    initCount >= 2 =>
        /\ doc.overlays = 1
        /\ doc.lightboxes <= 1
        /\ \A k \in 1..Len(doc.collapsibles) :
              /\ doc.collapsibles[k].icons <= 1
              /\ doc.collapsibles[k].listeners <= 1
        /\ \A k \in 1..Len(doc.links) : doc.links[k].glyphs <= 1

\* the shared navigation catalog: data/nav.json, else the configured links
NavCatalog == IF IsDefined(navJson) THEN navJson[1] ELSE sidebarLinks

\* a rendered sidebar shows exactly the given sections
BuiltFrom(sb, sections) ==
    /\ sb.kind = "sections"
    /\ Len(sb.sections) = Len(sections)
    /\ \A k \in 1..Len(sections) :
          /\ sb.sections[k].label = sections[k].label
          /\ Len(sb.sections[k].links) = Len(sections[k].links)
          /\ \A n \in 1..Len(sections[k].links) :
                sb.sections[k].links[n].href = sections[k].links[n].href

\* C10: the injected sidebar is built from window.WIKI_SIDEBAR when the page
\* defines it and has sections, from the shared navigation catalog when the
\* page defines none, and shows the "No sidebar defined" placeholder only
\* when neither supplies a section.
C10_SidebarResolution ==
    doc.layout = <<"injected">> =>
        LET sb == doc.sidebar[Len(doc.sidebar)] IN
        /\ (IsDefined(WIKI_SIDEBAR) /\ WIKI_SIDEBAR[1] # <<>>)
              => BuiltFrom(sb, WIKI_SIDEBAR[1])
        /\ (~IsDefined(WIKI_SIDEBAR) /\ NavCatalog # <<>>)
              => BuiltFrom(sb, NavCatalog)
        /\ sb.kind = "placeholder"
              <=> (OrEmpty(WIKI_SIDEBAR) = <<>> /\ NavCatalog = <<>>)

(***************************************************************************)
(* The search catalog's sources, checked under CatalogSpec (C11).          *)
(***************************************************************************)
\* Every combination of the shared page catalog and the page's own global.
CatalogInit ==
    /\ LoadState
    /\ NestedIdle
    /\ WIKI_SEARCH_PAGES \in {Undefined, Some(<<D1>>), Some(<<D2, D3>>)}
    /\ pagesJson \in {Undefined, Some(<<D1>>), Some(<<D3, D2>>)}
    /\ WIKI_SIDEBAR = Undefined
    /\ WIKI_PAGE = Undefined
    /\ navJson = Undefined
    /\ sidebarLinks = <<>>
    /\ Desmos = FALSE
    /\ doc = BlankDoc

CatalogNext ==
    \/ WikiInit
    \/ \E q \in Edits(overlayValue) : InputEvent(q)

CatalogSpec == CatalogInit /\ [][CatalogNext]_vars

\* C11: once buildSearchIndex has run, the catalog is data/pages.json when
\* that file is available, window.WIKI_SEARCH_PAGES only when it is not, and
\* empty when neither is present; then nothing raises and no query returns
\* a result.
C11_CatalogSourceResolution ==
    IsDefined(searchIndex) =>
        /\ IsDefined(pagesJson) => searchIndex[1] = pagesJson[1]
        /\ ~IsDefined(pagesJson) =>
              searchIndex[1] = OrEmpty(WIKI_SEARCH_PAGES)
        /\ (~IsDefined(pagesJson) /\ ~IsDefined(WIKI_SEARCH_PAGES)) =>
              (searchIndex[1] = <<>> /\ matches = <<>> /\ ~raised)

(***************************************************************************)
(* Desmos embeds over one page load, checked under DesmosSpec (C12, C13).  *)
(***************************************************************************)
MaxEmbeds == 2

EmbedPool ==
    {[iframe |-> f, exprsOk |-> x, optsOk |-> o, calcs |-> 0, sized |-> FALSE] :
        f \in BOOLEAN, x \in BOOLEAN, o \in BOOLEAN}

DesmosInit ==
    /\ LoadState
    /\ NestedIdle
    /\ WIKI_SEARCH_PAGES = Undefined
    /\ pagesJson = Undefined
    /\ WIKI_SIDEBAR = Undefined
    /\ WIKI_PAGE = Undefined
    /\ navJson = Undefined
    /\ sidebarLinks = <<>>
    /\ Desmos \in BOOLEAN
    /\ \E es \in SeqsUpTo(EmbedPool, MaxEmbeds) :
          doc = [BlankDoc EXCEPT !.embeds = es]

DesmosNext ==
    \/ DOMContentLoaded
    \/ DesmosLoaded
    \/ LoadEvent

DesmosSpec == DesmosInit /\ [][DesmosNext]_vars

\* Desmos was defined when the DOMContentLoaded handler ran: it then set no
\* 'load' listener
PresentAtBootstrap == phase # "loading" /\ ~loadListener
\* Desmos was undefined at bootstrap and is defined at the 'load' event
PresentAtLoadOnly == phase = "complete" /\ loadListener /\ Desmos
\* Desmos was undefined at bootstrap and at the 'load' event
NeverPresent == phase = "complete" /\ loadListener /\ ~Desmos

\* C12: no exception escapes a page-load handler, and once embeds have been
\* initialized with the library present, every embed whose configuration
\* parses has a calculator, whatever the configuration of the others.
C12_BadEmbedSkippedAlone ==
    /\ ~raised
    /\ (PresentAtBootstrap \/ PresentAtLoadOnly) =>
          \A k \in 1..Len(doc.embeds) :
              ParsesOk(doc.embeds[k]) => doc.embeds[k].calcs >= 1

\* C13: with the library present at bootstrap every embed with parsable
\* configuration has had exactly one calculator constructed; with the
\* library arriving only by the load-complete signal every embed has had at
\* most one; with the library never present no calculator was constructed
\* and nothing raised.
C13_InitializedOnce ==
    /\ PresentAtBootstrap =>
          \A k \in 1..Len(doc.embeds) :
              ParsesOk(doc.embeds[k]) => doc.embeds[k].calcs = 1
    /\ PresentAtLoadOnly =>
          \A k \in 1..Len(doc.embeds) : doc.embeds[k].calcs <= 1
    /\ NeverPresent =>
          (~raised /\ \A k \in 1..Len(doc.embeds) : doc.embeds[k].calcs = 0)

(***************************************************************************)
(* Tabs, checked under TabsSpec (C14).                                     *)
(***************************************************************************)
MaxTabs == 3

\* the index sets carrying the active class
ActiveSet(flags) == {k \in 1..Len(flags) : flags[k]}

TabContainer(bs, ps) ==
    [buttons |-> bs, panels |-> ps, listeners |-> 0, clicked |-> 0,
     plainMarkup |-> (ActiveSet(bs) \cup ActiveSet(ps) \subseteq {1})]

\* containers with at least one button and one panel, in equal or unequal
\* numbers, with any active marks in the markup
TabPool ==
    {TabContainer(bs, ps) :
        bs \in SeqsUpTo(BOOLEAN, MaxTabs) \ {<<>>},
        ps \in SeqsUpTo(BOOLEAN, MaxTabs) \ {<<>>}}

TabsInit ==
    /\ LoadState
    /\ NestedIdle
    /\ WIKI_SEARCH_PAGES = Undefined
    /\ pagesJson = Undefined
    /\ WIKI_SIDEBAR = Undefined
    /\ WIKI_PAGE = Undefined
    /\ navJson = Undefined
    /\ sidebarLinks = <<>>
    /\ Desmos = FALSE
    /\ \E ts \in SeqsUpTo(TabPool, 1) : doc = [BlankDoc EXCEPT !.tabs = ts]

TabsNext ==
    \/ DOMContentLoaded
    \/ \E c \in 1..Len(doc.tabs) :
          \E i \in 1..Len(doc.tabs[c].buttons) : ClickTab(c, i)

TabsSpec == TabsInit /\ [][TabsNext]_vars

\* the button that is to be active: the first, or the one clicked last
Selected(t) == IF t.clicked = 0 THEN 1 ELSE t.clicked

\* C14 as stated: after initTabs, in every tab container exactly one button
\* and exactly one panel are active, at the same index: the first by
\* default, the one clicked last afterwards.
C14_OneActiveTabEverywhere ==
    phase # "loading" =>
        \A c \in 1..Len(doc.tabs) :
            /\ ActiveSet(doc.tabs[c].buttons) = {Selected(doc.tabs[c])}
            /\ ActiveSet(doc.tabs[c].panels) = {Selected(doc.tabs[c])}

\* C14 amended: the same, for the tab containers that have at least one
\* button, as many panels as buttons, and markup that marks no button or
\* panel other than the first as active.
C14_OneActiveTab ==
    phase # "loading" =>
        \A c \in 1..Len(doc.tabs) :
            LET t == doc.tabs[c] IN
            (Len(t.buttons) >= 1 /\ Len(t.panels) = Len(t.buttons)
                /\ t.plainMarkup)
            => /\ ActiveSet(t.buttons) = {Selected(t)}
               /\ ActiveSet(t.panels) = {Selected(t)}

\* C14 witness: the second of two tabs was clicked and it and its panel are
\* the active ones
C14_Witness ==
    /\ phase # "loading"
    /\ Len(doc.tabs) = 1
    /\ Len(doc.tabs[1].buttons) = 2
    /\ Len(doc.tabs[1].panels) = 2
    /\ doc.tabs[1].plainMarkup
    /\ doc.tabs[1].clicked = 2
    /\ doc.tabs[1].buttons = <<FALSE, TRUE>>
    /\ doc.tabs[1].panels = <<FALSE, TRUE>>

(***************************************************************************)
(* Mobile sidebar, checked under MobileSpec (C15).                         *)
(***************************************************************************)
ClickTargets == {"toggle", "sidebar", "elsewhere"}

MobileInit ==
    /\ LoadState
    /\ NestedIdle
    /\ WIKI_SEARCH_PAGES = Undefined
    /\ pagesJson = Undefined
    /\ WIKI_SIDEBAR \in {Undefined, Some(SectionsA)}
    /\ WIKI_PAGE = Undefined
    /\ navJson = Undefined
    /\ sidebarLinks \in {<<>>, SectionsB}
    /\ Desmos = FALSE
    /\ \E h \in {<<>>, <<"authored">>}, b \in BOOLEAN, c \in BOOLEAN,
          f \in {<<>>, <<"authored">>}, l \in {<<>>, <<"authored">>},
          sb \in {<<>>, <<AuthoredSidebar>>} :
          /\ b => h # <<>>
          /\ l = <<>> => sb = <<>>
          /\ doc = [BlankDoc EXCEPT !.header = h, !.menuBtn = b,
                                    !.content = c, !.footer = f,
                                    !.layout = l, !.sidebar = sb]

MobileNext ==
    \/ DOMContentLoaded
    \/ \E target \in ClickTargets : ClickPage(target)

MobileSpec == MobileInit /\ [][MobileNext]_vars

\* C15: on a bootstrapped page that has the toggle button and a sidebar,
\* every click on the toggle flips the sidebar between open and closed, a
\* click inside the open sidebar leaves it open, a click elsewhere closes
\* an open sidebar, and a click other than on the toggle leaves a closed
\* sidebar closed.
C15_MobileSidebarClicks ==
    [][(phase # "loading" /\ HasMenuBtn(doc) /\ doc.sidebar # <<>>) =>
        /\ event' = "toggle" => doc'.sidebarOpen = ~doc.sidebarOpen
        /\ (event' = "sidebar" /\ doc.sidebarOpen) => doc'.sidebarOpen
        /\ (event' = "elsewhere" /\ doc.sidebarOpen) => ~doc'.sidebarOpen
        /\ (event' # "toggle" /\ ~doc.sidebarOpen) => ~doc'.sidebarOpen
      ]_vars

\* C15 witness: the last click was on the toggle and the sidebar is open
C15_Witness ==
    /\ phase # "loading"
    /\ HasMenuBtn(doc)
    /\ doc.sidebar # <<>>
    /\ doc.menuListeners = 1
    /\ event = "toggle"
    /\ doc.sidebarOpen

(***************************************************************************)
(* Scroll-spy, checked under SpySpec (C16).                                *)
(***************************************************************************)
MaxSpyHeadings == 3
MaxEntries == 2

\* an h3 with an id outside #wiki-content
OutsideId == <<"o">>

SpyInit ==
    /\ LoadState
    /\ NestedIdle
    /\ WIKI_SEARCH_PAGES = Undefined
    /\ pagesJson = Undefined
    /\ WIKI_SIDEBAR = Undefined
    /\ WIKI_PAGE = Undefined
    /\ navJson = Undefined
    /\ sidebarLinks = <<>>
    /\ Desmos = FALSE
    /\ \E hs \in SeqsUpTo({H1, H2, H4}, MaxSpyHeadings),
          out \in {<<>>, <<OutsideId>>} :
          doc = [BlankDoc EXCEPT !.headings = hs, !.outside = out]

SpyEntries(d) ==
    SeqsUpTo([id : d.observed, isIntersecting : BOOLEAN], MaxEntries)

SpyNext ==
    \/ DOMContentLoaded
    \/ \E entries \in SpyEntries(doc) : ObserverCallback(entries)

SpySpec == SpyInit /\ [][SpyNext]_vars

\* the side-panel links that carry the active class
ActiveLinks == {k \in 1..Len(SpyLinks(doc)) : SpyLinks(doc)[k].active}

\* the entries of the last callback that entered the trigger band
Entering == SelectSeq(doc.spyEntries, LAMBDA e : e.isIntersecting)

\* C16 as stated: at most one side-panel link is active, and after a
\* callback in which a heading entered the band the active link is one
\* whose target is the anchor of the last entering heading.
C16_ActiveLinkIsLastEntering ==
    /\ Cardinality(ActiveLinks) <= 1
    /\ (event = "intersect" /\ Entering # <<>>) =>
          \E k \in ActiveLinks :
              SpyLinks(doc)[k].href = Entering[Len(Entering)].id

\* C16 amended: at most one side-panel link is active, and after a callback
\* in which a heading entered the band the active link is the first link
\* whose target is the anchor of the last entering heading, and no link is
\* active when the side panel has no link to that heading.
C16_ActiveLinkIsLastEnteringIfLinked ==
    /\ Cardinality(ActiveLinks) <= 1
    /\ (event = "intersect" /\ Entering # <<>>) =>
          LET hit == FindLink(SpyLinks(doc), Entering[Len(Entering)].id) IN
          ActiveLinks = IF hit = 0 THEN {} ELSE {hit}

\* C16 witness: of two headings that entered in one callback, the link of
\* the second is the active one
C16_Witness ==
    /\ event = "intersect"
    /\ Len(Entering) = 2
    /\ Entering[1].id # Entering[2].id
    /\ FindLink(SpyLinks(doc), Entering[1].id) # 0
    /\ FindLink(SpyLinks(doc), Entering[2].id) \in ActiveLinks

(***************************************************************************)
(* Active sidebar links, checked under SidebarSpec (C17).                  *)
(***************************************************************************)
MaxLinks == 2

\* links of a sidebar section: a file beside the page, files in other
\* directories (two of them with the filename of another link), a
\* directory ("../") and the empty href (the current document)
LinkPool ==
    {[text |-> "L", href |-> h] :
        h \in {<<"about.html">>, <<"other", "about.html">>,
               <<"index.html">>, <<"..", "index.html">>,
               <<"..", "">>, <<"">>}}

\* pathnames: a page in a directory, a directory, the root page, the root
Pathnames ==
    {<<"", "pages", "about.html">>, <<"", "pages", "">>,
     <<"", "index.html">>, <<"", "">>}

SidebarInit ==
    /\ searchIndex = Undefined
    /\ overlayValue = <<>>
    /\ matches = <<>>
    /\ resultsHTML = EmptyResults
    /\ initCount = 0
    /\ layoutCalls = 0
    /\ tocCalls = 0
    /\ phase = "loading"
    /\ loadListener = FALSE
    /\ raised = FALSE
    /\ event = "none"
    /\ NestedIdle
    /\ location \in [pathname : Pathnames, hostname : {"wiki.example"}]
    /\ WIKI_SEARCH_PAGES = Undefined
    /\ pagesJson = Undefined
    /\ WIKI_SIDEBAR \in
          {Undefined, Some(SectionsA)} \cup
          {Some(<<[label |-> "S", links |-> ls]>>) :
              ls \in SeqsUpTo(LinkPool, MaxLinks) \ {<<>>}}
    /\ WIKI_PAGE = Undefined
    /\ navJson = Undefined
    /\ sidebarLinks \in {<<>>, SectionsB}
    /\ Desmos = FALSE
    /\ \E c \in BOOLEAN, l \in {<<>>, <<"authored">>} :
          doc = [BlankDoc EXCEPT
                    !.content = c, !.layout = l,
                    !.sidebar = IF l = <<>> THEN <<>> ELSE <<AuthoredSidebar>>]

SidebarNext == DOMContentLoaded

SidebarSpec == SidebarInit /\ [][SidebarNext]_vars

\* the current page's filename: the last segment of the path, index.html
\* for a path that ends in '/'
Filename ==
    LET p == location.pathname IN
    IF p[Len(p)] = "" THEN "index.html" ELSE p[Len(p)]

\* C17: after the bootstrap a sidebar link is active if and only if the
\* last segment of its href is the current page's filename.
C17_ActiveIffSameFilename ==
    phase # "loading" =>
        \A n \in 1..Len(doc.sidebar) :
            \A k \in 1..Len(doc.sidebar[n].sections) :
                \A j \in 1..Len(doc.sidebar[n].sections[k].links) :
                    LET a == doc.sidebar[n].sections[k].links[j] IN
                    a.active <=> (a.href[Len(a.href)] = Filename)

(***************************************************************************)
(* External links, checked under LinksSpec (C18).                          *)
(***************************************************************************)
MaxAnchors == 2

\* links of a page: absolute http(s) links to the page's host and to another
\* host (one holding an .ext-icon), a relative link (a.hostname is the
\* page's), a protocol-relative link to another host ("//other.example/x")
\* and a mailto link (a.hostname is empty)
AnchorPool ==
    {Anchor("wiki.example"), Anchor("other.example"),
     [Anchor("other.example") EXCEPT !.extIcon = TRUE],
     [Anchor("wiki.example") EXCEPT !.http = FALSE],
     [Anchor("other.example") EXCEPT !.http = FALSE],
     [Anchor("") EXCEPT !.http = FALSE]}

LinksInit ==
    /\ LoadState
    /\ NestedIdle
    /\ WIKI_SEARCH_PAGES = Undefined
    /\ pagesJson = Undefined
    /\ WIKI_SIDEBAR = Undefined
    /\ WIKI_PAGE = Undefined
    /\ navJson = Undefined
    /\ sidebarLinks = <<>>
    /\ Desmos = FALSE
    /\ \E ls \in SeqsUpTo(AnchorPool, MaxAnchors), c \in BOOLEAN,
          f \in {<<>>, <<"authored">>} :
          doc = [BlankDoc EXCEPT !.links = ls, !.content = c, !.footer = f]

LinksNext == DOMContentLoaded

LinksSpec == LinksInit /\ [][LinksNext]_vars

\* a link opens in a new context and carries the indicator
Marked(a) ==
    /\ a.target = "_blank"
    /\ a.rel = "noopener noreferrer"
    /\ a.glyphs >= 1 \/ a.extIcon

\* a link is as the page's markup has it
Unmarked(a) == a.target = "" /\ a.rel = "" /\ a.glyphs = 0

\* C18: after the bootstrap every link of the document whose host is not
\* the current page's host is marked (target=_blank, rel=noopener
\* noreferrer, the indicator glyph) and every link whose host is the
\* page's host is as it was.
C18_OtherHostLinksMarked ==
    phase # "loading" =>
        \A k \in 1..Len(doc.links) :
            LET a == doc.links[k] IN
            /\ (a.hostname # "" /\ a.hostname # location.hostname)
                  => Marked(a)
            /\ a.hostname = location.hostname => Unmarked(a)

(***************************************************************************)
(* The search overlay, checked under OverlaySpec (C19).                    *)
(***************************************************************************)
\* Pages with and without a header of their own, with and without the
\* header search in it, and with or without a value already in the header
\* input when the bootstrap runs.
OverlayInit ==
    /\ LoadState
    /\ NestedIdle
    /\ WIKI_SEARCH_PAGES \in {Undefined, Some(<<D1, D2, D3>>)}
    /\ pagesJson = Undefined
    /\ WIKI_SIDEBAR = Undefined
    /\ WIKI_PAGE = Undefined
    /\ navJson = Undefined
    /\ sidebarLinks = <<>>
    /\ Desmos = FALSE
    /\ \E h \in {<<>>, <<"authored">>}, hs \in BOOLEAN,
          v \in {<<>>, <<"a">>, <<" ">>} :
          /\ hs => h # <<>>
          /\ (h # <<>> /\ ~hs) => v = <<>>
          /\ doc = [BlankDoc EXCEPT !.header = h, !.headerSearch = hs,
                                    !.headerValue = IF h = <<>> THEN <<>> ELSE v]

OverlayNext ==
    \/ DOMContentLoaded
    \/ OpenSearch
    \/ \E q \in Edits(overlayValue) : TypeInOverlay(q)
    \/ \E how \in {"button", "backdrop", "escape"} : CloseSearch(how)

OverlaySpec == OverlayInit /\ [][OverlayNext]_vars

\* C19: while the overlay is open its results are the search output for the
\* overlay input's value over the catalog built at bootstrap; every close
\* leaves the overlay closed and the header input empty; an open that
\* follows a close starts from the placeholder.
C19_OverlayShowsCurrentSearch ==
    /\ doc.overlayOpen =>
          /\ searchIndex = Some(OrEmpty(WIKI_SEARCH_PAGES))
          /\ resultsHTML = RenderResults(searchIndex[1], overlayValue)
          /\ matches = SearchMatches(searchIndex[1], overlayValue)
    /\ event = "close" => (~doc.overlayOpen /\ doc.headerValue = <<>>)
    /\ (event = "open" /\ doc.closedOnce) =>
          (overlayValue = <<>> /\ resultsHTML.kind = "placeholder")

\* C19 witness: after a close and a re-open the user has typed a query that
\* matches, and the overlay shows its rows
C19_Witness ==
    /\ doc.overlayOpen
    /\ doc.closedOnce
    /\ overlayValue # <<>>
    /\ resultsHTML.kind = "rows"
    /\ Len(matches) >= 2

====
